---- MODULE Spec2Model ----
(***************************************************************************)
(* Model of pride.py: the wavy pride flag badge for the Tufty 2040.        *)
(*                                                                         *)
(* The program is the module's top-level code: it loads config.json,       *)
(* installs the palette of the selected flag and then runs the main loop,  *)
(* one iteration per frame.  Boot models lines 210-218; the loop body is   *)
(* the sequence PollA, PollUp, PollDown, PollB, PollC, Draw, Light, which  *)
(* pc steps through in the order of the source.  DrawNameError is the pass *)
(* that stops at line 249 because `tick` was never bound.                  *)
(*                                                                         *)
(* Numbers.  Floats are modelled by exact integers in fixed units:         *)
(*   weights          in sixtieths          (i/COLS + 0.2 = (5i+12)/60)    *)
(*   frange samples   in 1/(COLS+1) mrad    (the step is then FOUR_PI)     *)
(*   sines            in thousandths                                       *)
(*   backlight        in 1/(2*LUX_FULL)     (0.5 is LUX_FULL)              *)
(* Indices are 0-based as in the source; a TLA+ sequence s holds the       *)
(* Python list element s[i] at s[i+1].                                     *)
(***************************************************************************)
EXTENDS Integers, Sequences, FiniteSets, TLC

VARIABLES
    pc,            \* "boot" before line 210, then the next statement of the loop
    config,        \* the parsed content of config.json
    flag,          \* index into FLAGS of the selected flag
    name,          \* title text
    subtitle,      \* subtitle text
    qr,            \* text handed to qrcode.QRCode.set_text
    mode,          \* "run" or "pause"
    palette,       \* the display's palette (display.set_palette)
    strip_colors,  \* colour pairs of the strips
    strip_height,  \* height of one strip
    show_fps,
    show_qr,
    tick,          \* the global `tick`; meaningful when tick_bound
    tick_bound,    \* whether the name `tick` has been assigned
    clock,         \* time.ticks_ms()
    read,          \* what the last Button.read() returned
    lux_raw,       \* <<what the last lux.read_u16() returned>>, <<>> before the first
    backlight,     \* display.set_backlight
    frame          \* what the last pass drew

vars == <<pc, config, flag, name, subtitle, qr, mode, palette, strip_colors,
          strip_height, show_fps, show_qr, tick, tick_bound, clock, read,
          lux_raw, backlight, frame>>

----------------------------------------------------------------------------
(* Bounds of the model *)

\* number of clock steps the model lets time.ticks_ms() advance in total
MaxClockSteps == 3
\* milliseconds of one clock step
ClockStep == 150
\* most clock steps that pass between two reads of time.ticks_ms()
MaxDt == 1

MaxClock == MaxClockSteps * ClockStep

\* raw 16 bit samples of the light sensor
LuxSamples == {0, 3500, 7000, 14000, 65535}

\* a key that config.json does not hold
Absent == "<absent>"

\* contents of config.json: every key is present or not on its own
FlagNames == {Absent, "pan", "pride", "trans"}
Configs == [default_flag : FlagNames,
            title : {Absent, "X", "Jo"},
            subtitle : {Absent, "Y", "they"},
            qrcode : {Absent, "https://x.org"}]

\* the files the main loop is explored with: an empty one and a full one
BootConfigs == {c \in Configs :
                  \/ \A k \in DOMAIN c : c[k] = Absent
                  \/ /\ c.default_flag \in {"pride", "trans"}
                     /\ c.title = "X" /\ c.subtitle = "Y" /\ c.qrcode # Absent}

----------------------------------------------------------------------------
(* Constants of the program *)

\* display.get_bounds() of the Tufty 2040 is (320, 240)
WIDTH == 320
COLS == 12
COL_WIDTH == WIDTH \div COLS
\* 12.566 in mrad
FOUR_PI == 12566
FLAGS == <<"pan", "pride">>

Min(a, b) == IF a <= b THEN a ELSE b

\* int(n/d) for d > 0: Python's int() truncates towards zero
TruncDiv(n, d) == IF n >= 0 THEN n \div d ELSE -((-n) \div d)

\* the pole entry forgotten, the comprehension run one further instead
WEIGHTS_NoPole == [k \in 1..(COLS + 1) |-> Min(60, (60 * (k - 1)) \div COLS + 12)]

\* the comprehension over range(1, COLS + 1)
WEIGHTS_FromOne == <<0>> \o [k \in 1..COLS |-> Min(60, (60 * k) \div COLS + 12)]

\* WEIGHTS = [0.0] + [min(1.0, (i / COLS) + 0.2) for i in range(COLS)], in sixtieths
WEIGHTS == <<0>> \o [k \in 1..COLS |-> Min(60, (60 * (k - 1)) \div COLS + 12)]

----------------------------------------------------------------------------
(* load_config *)

Has(cfg, key) == cfg[key] # Absent

\* an unknown name answered with the last flag instead of the first
load_config_LastFlag(cfg) ==
    [flag |-> IF Has(cfg, "default_flag")
              THEN IF \E i \in 1..Len(FLAGS) : FLAGS[i] = cfg.default_flag
                   THEN (CHOOSE i \in 1..Len(FLAGS) : FLAGS[i] = cfg.default_flag) - 1
                   ELSE Len(FLAGS) - 1
              ELSE 0,
     title |-> IF Has(cfg, "title") THEN cfg.title ELSE "Lorem",
     subtitle |-> IF Has(cfg, "subtitle") THEN cfg.subtitle ELSE "Ipsum edit",
     code |-> IF Has(cfg, "qrcode") THEN cfg.qrcode ELSE "https://example.com"]

\* FLAGS.index raises ValueError for a name that is not in FLAGS; the except
\* clause turns that into flag 0.  The names of FLAGS are distinct, so the
\* first position of a name is its only one.
load_config(cfg) ==
    [flag |-> IF Has(cfg, "default_flag")
              THEN IF \E i \in 1..Len(FLAGS) : FLAGS[i] = cfg.default_flag
                   THEN (CHOOSE i \in 1..Len(FLAGS) : FLAGS[i] = cfg.default_flag) - 1
                   ELSE 0
              ELSE 0,
     title |-> IF Has(cfg, "title") THEN cfg.title ELSE "Lorem",
     subtitle |-> IF Has(cfg, "subtitle") THEN cfg.subtitle ELSE "Ipsum edit",
     code |-> IF Has(cfg, "qrcode") THEN cfg.qrcode ELSE "https://example.com"]

----------------------------------------------------------------------------
(* frange and the wave offsets of draw_flag *)

\* The generator after its first yield: x is the value last yielded.
RECURSIVE frange_rest(_, _, _)
frange_rest(x, stop, step) ==
    LET y == x + step
    IN  IF y > stop THEN <<y, stop>>
        ELSE <<y>> \o frange_rest(y, stop, step)

\* Everything the generator yields, for step > 0: start, then start + k*step
\* up to and including the first value beyond stop, then stop itself.
frange(start, stop, step) == <<start>> \o frange_rest(start, stop, step)

\* zip stops with the shorter of its two arguments
Zip(s, t) == [i \in 1..Min(Len(s), Len(t)) |-> <<s[i], t[i]>>]

\* math.pi and 2 * math.pi in mrad
PI_M == 3142
TWO_PI_M == 2 * PI_M

\* 1000 * sin(r mrad) for 0 <= r <= PI_M, by Bhaskara's formula
\* 16 r (pi - r) / (5 pi^2 - 4 r (pi - r)), which is within 0.002 of the sine.
HalfWave(r) ==
    LET p == r * (PI_M - r)
    IN  (4 * p) \div ((((5 * PI_M * PI_M) \div 4) - p) \div 1000)

\* 1000 * math.sin(a mrad), a >= 0
SinMilli(a) ==
    LET r == a % TWO_PI_M
    IN  IF r <= PI_M THEN HalfWave(r) ELSE -HalfWave(r - PI_M)

\* zip(frange(0, FOUR_PI, FOUR_PI / (COLS + 1)), WEIGHTS): the pairs (x, weight)
\* the comprehension of draw_flag runs over, x in 1/(COLS+1) mrad
wave_pairs == Zip(frange(0, FOUR_PI * (COLS + 1), FOUR_PI), WEIGHTS)

\* col_offsets of draw_flag: offset = tick / 200 is 5 * t mrad, the weights are
\* in sixtieths and the sine in thousandths, so 15 * weight * sin is w * s / 4000.
col_offsets(t) ==
    [i \in 1..Len(wave_pairs) |->
        TruncDiv(wave_pairs[i][2]
                   * SinMilli((5 * t * (COLS + 1) + wave_pairs[i][1]) \div (COLS + 1)),
                 4000)]

----------------------------------------------------------------------------
(* draw_flag *)

\* the operands of the slope exchanged: m = p1[1] - p0[1]
PenFor_Swapped(p0, p1, colors) ==
    LET m == p1[2] - p0[2]
    IN  IF m < -2 THEN colors[2] ELSE colors[1]

\* the pen of one quadrilateral: p0 is its top left corner, p1 its top right
\* corner, colors the [main, shade] pair of its strip
PenFor(p0, p1, colors) ==
    LET m == p0[2] - p1[2]
    IN  IF m < -2 THEN colors[2] ELSE colors[1]

\* the quadrilateral of strip `row` and column `col` (both 0-based)
Quad(row, col, offs, colors, height_per_strip) ==
    LET p0 == <<col * COL_WIDTH, (row * height_per_strip) + offs[col + 1] + 30>>
        p1 == <<p0[1] + COL_WIDTH, (row * height_per_strip) + offs[col + 2] + 30>>
        p2 == <<p1[1], p1[2] + height_per_strip>>
        p3 == <<p0[1], p0[2] + height_per_strip>>
    IN  [row |-> row, col |-> col, p0 |-> p0, p1 |-> p1, p2 |-> p2, p3 |-> p3,
         pen |-> PenFor(p0, p1, colors)]

\* the quadrilaterals drawn over the offsets offs, in drawing order
Quads(offs, color_list, height_per_strip) ==
    [k \in 1..(Len(color_list) * COLS) |->
        Quad((k - 1) \div COLS, (k - 1) % COLS, offs,
             color_list[((k - 1) \div COLS) + 1], height_per_strip)]

\* draw_flag: the weights and offsets of the column boundaries and the
\* polygons handed to display.polygon
draw_flag(t, color_list, height_per_strip) ==
    [weights |-> [i \in 1..Len(wave_pairs) |-> wave_pairs[i][2]],
     offsets |-> col_offsets(t),
     polys |-> Quads(col_offsets(t), color_list, height_per_strip)]

----------------------------------------------------------------------------
(* swap_pallette *)

PanPalette == << <<0, 0, 0>>, <<255, 255, 255>>, <<226, 28, 208>>, <<181, 44, 169>>,
                 <<255, 245, 39>>, <<218, 211, 58>>, <<42, 195, 255>>, <<55, 169, 214>> >>

PridePalette == << <<0, 0, 0>>, <<255, 255, 255>>, <<234, 53, 53>>, <<202, 21, 21>>,
                   <<234, 158, 53>>, <<202, 127, 21>>, <<234, 209, 53>>, <<202, 178, 21>>,
                   <<53, 234, 56>>, <<21, 202, 25>>, <<24, 69, 166>>, <<26, 61, 137>>,
                   <<115, 31, 179>>, <<98, 37, 144>> >>

\* the band the strips share
BAND == 180

\* What swap_pallette(m) hands to display.set_palette and what it returns.
\* For a name that is neither flag, `colors` is unbound at the return: the
\* CASE has no other arm.
swap_pallette(m) ==
    LET colors == CASE m = "pan" -> << <<2, 3>>, <<4, 5>>, <<6, 7>> >>
                    [] m = "pride" -> << <<2, 3>>, <<4, 5>>, <<6, 7>>,
                                         <<8, 9>>, <<10, 11>>, <<12, 13>> >>
    IN  [palette |-> CASE m = "pan" -> PanPalette [] m = "pride" -> PridePalette,
         colors |-> colors,
         height |-> BAND \div Len(colors)]

----------------------------------------------------------------------------
(* The statements of the main loop *)

\* the pause branch without its way back
ToggleMode_Stuck(m, a) ==
    IF m = "run" THEN (IF a THEN "pause" ELSE m) ELSE m

\* lines 222-228: button_a is read once, in the branch of the current mode
ToggleMode(m, a) ==
    IF m = "run" THEN (IF a THEN "pause" ELSE m)
    ELSE IF m = "pause" THEN (IF a THEN "run" ELSE m)
    ELSE m

\* line 231
NextFlag(f) == IF f # Len(FLAGS) - 1 THEN f + 1 ELSE 0

\* the wrap at index 0 forgotten
PrevFlag_NoWrap(f) == IF f # 0 THEN f - 1 ELSE 0

\* line 235
PrevFlag(f) == IF f # 0 THEN f - 1 ELSE Len(FLAGS) - 1

\* the selection: the flag index with the palette and strips installed for it
Select(f, sw) ==
    [flag |-> f, palette |-> sw.palette, colors |-> sw.colors, height |-> sw.height]

\* lines 230-232
ButtonUp(up, sel) ==
    IF up THEN Select(NextFlag(sel.flag), swap_pallette(FLAGS[NextFlag(sel.flag) + 1]))
    ELSE sel

\* the flag changed without the palette and strips being installed
ButtonDown_NoSwap(down, sel) ==
    IF down THEN [sel EXCEPT !.flag = PrevFlag(sel.flag)] ELSE sel

\* lines 234-236
ButtonDown(down, sel) ==
    IF down THEN Select(PrevFlag(sel.flag), swap_pallette(FLAGS[PrevFlag(sel.flag) + 1]))
    ELSE sel

\* tick read from the clock in either mode
TickAt_Always(m, t, now) == now

\* lines 244-245: the tick after the buttons were handled; now is time.ticks_ms()
TickAt(m, t, now) == IF m = "run" THEN now ELSE t

\* the denominator of line 266
LUX_FULL == 7000

\* the sample added without the clamp
Backlight_NoClamp(raw) == LUX_FULL + 2 * raw

\* lines 266-267: 0.5 + min(0.5, raw / 7000), in 1/(2*LUX_FULL)
Backlight(raw) == LUX_FULL + Min(LUX_FULL, 2 * raw)

\* lines 251-255: the QR code or the two centred texts
Overlay(qr_shown) ==
    IF qr_shown THEN [kind |-> "qr", text |-> <<qr>>]
    ELSE [kind |-> "text", text |-> <<name, subtitle>>]

----------------------------------------------------------------------------
(* State *)

NoFrame == [drawn |-> FALSE, tick |-> 0, colors |-> <<>>, height |-> 0,
            flag |-> [weights |-> <<>>, offsets |-> <<>>, polys |-> <<>>],
            overlay |-> [kind |-> "none", text |-> <<>>],
            fps |-> FALSE]

\* The state when line 210 is reached with the file cfg: the display is set
\* up (backlight 1.0, line 56) and none of the loop's globals is bound yet.
Start(cfg) ==
    /\ pc = "boot"
    /\ config = cfg
    /\ flag = 0
    /\ name = Absent
    /\ subtitle = Absent
    /\ qr = Absent
    /\ mode = "none"
    /\ palette = <<>>
    /\ strip_colors = <<>>
    /\ strip_height = 0
    /\ show_fps = FALSE
    /\ show_qr = FALSE
    /\ tick = 0
    /\ tick_bound = FALSE
    /\ clock = 0
    /\ read = FALSE
    /\ lux_raw = <<>>
    /\ backlight = 2 * LUX_FULL
    /\ frame = NoFrame

Init == \E cfg \in BootConfigs : Start(cfg)

InitLoad == \E cfg \in Configs : Start(cfg)

\* lines 210-218: the configuration is loaded and the palette of the chosen
\* flag installed.  (prev, line 212, only feeds the frame rate text.)
Boot ==
    /\ pc = "boot"
    /\ LET loaded == load_config(config)
           sw == swap_pallette(FLAGS[loaded.flag + 1])
       IN  /\ flag' = loaded.flag
           /\ name' = loaded.title
           /\ subtitle' = loaded.subtitle
           /\ qr' = loaded.code
           /\ palette' = sw.palette
           /\ strip_colors' = sw.colors
           /\ strip_height' = sw.height
    /\ mode' = "run"
    /\ show_fps' = FALSE
    /\ show_qr' = FALSE
    /\ pc' = "a"
    /\ UNCHANGED <<config, tick, tick_bound, clock, read, lux_raw, backlight, frame>>

\* lines 220-228: button_a
PollA ==
    /\ pc = "a"
    /\ \E a \in BOOLEAN :
          /\ read' = a
          /\ mode' = ToggleMode(mode, a)
    /\ pc' = "up"
    /\ UNCHANGED <<config, flag, name, subtitle, qr, palette, strip_colors,
                   strip_height, show_fps, show_qr, tick, tick_bound, clock,
                   lux_raw, backlight, frame>>

\* the selection the globals hold
Selected ==
    [flag |-> flag, palette |-> palette, colors |-> strip_colors,
     height |-> strip_height]

\* the globals take the selection sel
Install(sel) ==
    /\ flag' = sel.flag
    /\ palette' = sel.palette
    /\ strip_colors' = sel.colors
    /\ strip_height' = sel.height

\* lines 230-232: button_up
PollUp ==
    /\ pc = "up"
    /\ \E up \in BOOLEAN :
          /\ read' = up
          /\ Install(ButtonUp(up, Selected))
    /\ pc' = "down"
    /\ UNCHANGED <<config, name, subtitle, qr, mode, show_fps, show_qr, tick,
                   tick_bound, clock, lux_raw, backlight, frame>>

\* lines 234-236: button_down
PollDown ==
    /\ pc = "down"
    /\ \E down \in BOOLEAN :
          /\ read' = down
          /\ Install(ButtonDown(down, Selected))
    /\ pc' = "b"
    /\ UNCHANGED <<config, name, subtitle, qr, mode, show_fps, show_qr, tick,
                   tick_bound, clock, lux_raw, backlight, frame>>

\* lines 238-239: button_b
PollB ==
    /\ pc = "b"
    /\ \E b \in BOOLEAN :
          /\ read' = b
          /\ show_qr' = (IF b THEN ~show_qr ELSE show_qr)
    /\ pc' = "c"
    /\ UNCHANGED <<config, flag, name, subtitle, qr, mode, palette, strip_colors,
                   strip_height, show_fps, tick, tick_bound, clock, lux_raw,
                   backlight, frame>>

\* lines 241-242: button_c
PollC ==
    /\ pc = "c"
    /\ \E c \in BOOLEAN :
          /\ read' = c
          /\ show_fps' = (IF c THEN ~show_fps ELSE show_fps)
    /\ pc' = "draw"
    /\ UNCHANGED <<config, flag, name, subtitle, qr, mode, palette, strip_colors,
                   strip_height, show_qr, tick, tick_bound, clock, lux_raw,
                   backlight, frame>>

\* lines 244-264: the tick is read from the clock when running, then the flag,
\* the overlay and the frame rate are drawn and the frame shown.  dt is the
\* number of clock steps gone since the clock was last read.
Draw ==
    /\ pc = "draw"
    /\ mode = "run" \/ tick_bound
    /\ \E dt \in 0..MaxDt :
          /\ clock + dt * ClockStep <= MaxClock
          /\ clock' = clock + dt * ClockStep
    /\ tick' = TickAt(mode, tick, clock')
    /\ tick_bound' = TRUE
    /\ frame' = [drawn |-> TRUE, tick |-> tick', colors |-> strip_colors,
                 height |-> strip_height,
                 flag |-> draw_flag(tick', strip_colors, strip_height),
                 overlay |-> Overlay(show_qr), fps |-> show_fps]
    /\ pc' = "light"
    /\ UNCHANGED <<config, flag, name, subtitle, qr, mode, palette, strip_colors,
                   strip_height, show_fps, show_qr, read, lux_raw, backlight>>

\* Line 249 reached with `tick` unbound (the animation was paused before tick
\* was ever read): evaluating the argument raises NameError and the program
\* ends.
DrawNameError ==
    /\ pc = "draw"
    /\ mode # "run" /\ ~tick_bound
    /\ pc' = "crashed"
    /\ UNCHANGED <<config, flag, name, subtitle, qr, mode, palette, strip_colors,
                   strip_height, show_fps, show_qr, tick, tick_bound, clock, read,
                   lux_raw, backlight, frame>>

\* lines 266-267: the backlight follows the light sensor
Light ==
    /\ pc = "light"
    /\ \E raw \in LuxSamples :
          /\ lux_raw' = <<raw>>
          /\ backlight' = Backlight(raw)
    /\ pc' = "a"
    /\ UNCHANGED <<config, flag, name, subtitle, qr, mode, palette, strip_colors,
                   strip_height, show_fps, show_qr, tick, tick_bound, clock, read,
                   frame>>

Next ==
    \/ Boot
    \/ PollA
    \/ PollUp
    \/ PollDown
    \/ PollB
    \/ PollC
    \/ Draw
    \/ DrawNameError
    \/ Light

Spec == Init /\ [][Next]_vars

NextLoad == Boot

SpecLoad == InitLoad /\ [][NextLoad]_vars

----------------------------------------------------------------------------
(* Properties *)

Last == Len(FLAGS) - 1

\* C1: while the mode is paused, a pass in which button C reports a press
\* advances the tick that is drawn and leaves the mode paused.  (At Draw,
\* `read` is what button_c.read() returned in this pass.)
C1_StepAdvancesTick ==
    [][(pc = "draw" /\ pc' = "light" /\ mode = "pause" /\ read)
          => (tick' > tick /\ mode' = "pause")]_vars

\* the pen of quadrilateral q is the shade colour of its strip
Shaded(q) == q.pen = frame.colors[q.row + 1][2]

\* the pen of quadrilateral q is the main colour of its strip
Main(q) == q.pen = frame.colors[q.row + 1][1]

\* C2 as stated: every quadrilateral drawn has the shade colour exactly when
\* top-right y minus top-left y is less than -2, and the main colour otherwise.
C2_ShadeWhenRightHigher ==
    \A k \in DOMAIN frame.flag.polys :
        LET q == frame.flag.polys[k]
        IN  IF q.p1[2] - q.p0[2] < -2 THEN Shaded(q) ELSE Main(q)

\* C2 amended: every quadrilateral drawn has the shade colour exactly when
\* top-left y minus top-right y is less than -2 (the right corner is more
\* than 2 below the left one), and the main colour otherwise; top-left y=100
\* with top-right y=97 gives the main colour, y=97 with y=100 the shade.
C2_ShadeWhenRightLower ==
    /\ \A k \in DOMAIN frame.flag.polys :
          LET q == frame.flag.polys[k]
          IN  IF q.p0[2] - q.p1[2] < -2 THEN Shaded(q) ELSE Main(q)
    /\ PenFor(<<0, 100>>, <<COL_WIDTH, 97>>, <<2, 3>>) = 2
    /\ PenFor(<<0, 97>>, <<COL_WIDTH, 100>>, <<2, 3>>) = 3
    /\ PenFor(<<0, 100>>, <<COL_WIDTH, 99>>, <<2, 3>>) = 2

\* C2 witness: a frame with a quadrilateral whose right corner is more than 2
\* above its left corner, drawn in the main colour, next to a shaded one.
C2_Witness ==
    /\ frame.drawn
    /\ \E k \in DOMAIN frame.flag.polys :
          LET q == frame.flag.polys[k]
          IN  q.p1[2] - q.p0[2] < -2 /\ Main(q) /\ ~Shaded(q)
    /\ \E k \in DOMAIN frame.flag.polys :
          LET q == frame.flag.polys[k]
          IN  q.p1[2] - q.p0[2] > 2 /\ Shaded(q)

\* C3: the mode is "run" when the loop is entered; the statement that reads
\* button A flips the mode between "run" and "pause" when the button reports
\* a press and leaves it otherwise; no other statement of the loop changes it.
C3_ModeToggle ==
    [][/\ pc = "boot" => mode' = "run"
       /\ pc = "a" => /\ mode \in {"run", "pause"} /\ mode' \in {"run", "pause"}
                      /\ read' => mode' # mode
                      /\ ~read' => mode' = mode
       /\ pc \notin {"boot", "a"} => mode' = mode]_vars

\* C3 witness: button A has just reported a press that set a paused
\* animation running again.
C3_Witness == pc = "up" /\ read /\ mode = "run" /\ frame.drawn /\ clock > frame.tick

C5_FlagCycles ==
    [][/\ flag \in 0..Last /\ flag' \in 0..Last
       /\ pc = "up" => flag' = (IF ~read' THEN flag
                                 ELSE IF flag = Last THEN 0 ELSE flag + 1)
       /\ pc = "down" => flag' = (IF ~read' THEN flag
                                   ELSE IF flag = 0 THEN Last ELSE flag - 1)]_vars

\* C5 witness: button down has just reported a press that took the index
\* from 0 to the last one, in a pass after the first.
C5_Witness == pc = "b" /\ read /\ flag = Last /\ Last > 0 /\ frame.drawn

\* C6: the offset table of every draw_flag call has COLS+1 entries, one for
\* every index col and col+1 with col in 0..COLS-1, and its first entry is 0.
C6_OffsetTable ==
    frame.drawn =>
        /\ Len(frame.flag.offsets) = COLS + 1
        /\ \A col \in 0..(COLS - 1) : {col + 1, col + 2} \subseteq DOMAIN frame.flag.offsets
        /\ frame.flag.offsets[1] = 0

\* C6 witness: a table drawn for a tick other than 0 whose sine at the pole
\* is not 0, with offsets that are not 0 further out.
C6_Witness ==
    /\ frame.drawn
    /\ frame.tick > 0
    /\ SinMilli(5 * frame.tick) > 500
    /\ \E i \in DOMAIN frame.flag.offsets : frame.flag.offsets[i] # 0

\* C7 as stated: the weights draw_flag uses are w_0 = 0 and
\* w_i = min(1, i/COLS + 0.2) for 1 <= i <= COLS (in sixtieths).
C7_WeightsByIndex ==
    frame.drawn =>
        /\ frame.flag.weights[1] = 0
        /\ \A i \in 1..COLS :
              frame.flag.weights[i + 1] = Min(60, (60 * i) \div COLS + 12)

\* C7 amended: the weights draw_flag uses are w_0 = 0 and
\* w_i = min(1, (i-1)/COLS + 0.2) for 1 <= i <= COLS (in sixtieths).
C7_WeightsByIndexLessOne ==
    frame.drawn =>
        /\ Len(frame.flag.weights) = COLS + 1
        /\ frame.flag.weights[1] = 0
        /\ \A i \in 1..COLS :
              frame.flag.weights[i + 1] = Min(60, (60 * (i - 1)) \div COLS + 12)

\* C7 witness: a frame drawn with w_1 = 0.2 and the last weight at its cap.
C7_Witness ==
    /\ frame.drawn
    /\ frame.flag.weights[2] = 12
    /\ frame.flag.weights[COLS + 1] = 60
    /\ frame.flag.offsets[2] # 0

\* C8: once the sensor has been read, the backlight is 0.5 + min(0.5, raw/7000)
\* for the raw sample read last: between 0.5 and 1.0, 0.5 for raw = 0 and 1.0
\* for every raw >= 7000 (in 1/14000).
C8_Backlight ==
    lux_raw # <<>> =>
        LET raw == lux_raw[1]
        IN  /\ backlight >= 7000 /\ backlight <= 14000
            /\ raw = 0 => backlight = 7000
            /\ raw >= 7000 => backlight = 14000
            /\ raw < 7000 => backlight = 7000 + 2 * raw

\* C8 witness: a pass has read a sample of twice the full value and the
\* backlight is at 1.0.
C8_Witness == pc = "a" /\ lux_raw = <<14000>> /\ backlight = 14000

\* C9: after loading, title, subtitle and QR text are the values of the file
\* where it has the key and "Lorem", "Ipsum edit", "https://example.com"
\* where it has not, each on its own; the flag is the position of
\* default_flag in FLAGS ("pan" 0, "pride" 1) and 0 when the key is missing
\* or names no flag; loading always completes.
C9_LoadConfig ==
    /\ pc \in {"boot", "a"}
    /\ pc = "a" =>
          /\ name = (IF config.title = Absent THEN "Lorem" ELSE config.title)
          /\ subtitle = (IF config.subtitle = Absent THEN "Ipsum edit"
                         ELSE config.subtitle)
          /\ qr = (IF config.qrcode = Absent THEN "https://example.com"
                   ELSE config.qrcode)
          /\ flag = (CASE config.default_flag = "pan" -> 0
                       [] config.default_flag = "pride" -> 1
                       [] OTHER -> 0)

\* C9 witness: a file with a title, an unknown flag name and no subtitle has
\* been loaded.
C9_Witness ==
    /\ pc = "a"
    /\ config.default_flag = "trans" /\ flag = 0
    /\ config.title = "X" /\ name = "X"
    /\ config.subtitle = Absent /\ subtitle = "Ipsum edit"
    /\ config.qrcode = Absent /\ qr = "https://example.com"

\* C10: right after every draw_flag call, the colour list and strip height it
\* was given are those of FLAGS[flag]: 3 pairs of height 60 for "pan", 6 pairs
\* of height 30 for "pride", the height being 180 integer-divided by the
\* number of strips.
C10_StripsOfSelectedFlag ==
    pc = "light" =>
        /\ FLAGS[flag + 1] = "pan" =>
              /\ frame.colors = << <<2, 3>>, <<4, 5>>, <<6, 7>> >>
              /\ frame.height = 60
        /\ FLAGS[flag + 1] = "pride" =>
              /\ frame.colors = << <<2, 3>>, <<4, 5>>, <<6, 7>>,
                                   <<8, 9>>, <<10, 11>>, <<12, 13>> >>
              /\ frame.height = 30
        /\ frame.height = 180 \div Len(frame.colors)
        /\ Len(frame.flag.polys) = Len(frame.colors) * COLS

\* C10 witness: the file selected no flag, buttons have moved the selection
\* to "pride" in a pass after the first, and six strips were drawn.
C10_Witness ==
    /\ pc = "light"
    /\ config.default_flag = Absent
    /\ FLAGS[flag + 1] = "pride"
    /\ Len(frame.colors) = 6
    /\ frame.tick > 0

====
